---- MODULE Spec2Model ----
(***************************************************************************)
(* A model of impg's command line driver (src/main.rs): index selection,   *)
(* the query front end and the partitioner.  The library behind the        *)
(* driver (impg::impg, impg::paf) is modelled from its specification:      *)
(* every alignment of the model is ungapped (its CIGAR is one '=' run).    *)
(***************************************************************************)
EXTENDS Integers, Sequences, FiniteSets, TLC

\* ------------------------------------------------------------------ bounds
MaxW == 3            \* window sizes 0..MaxW are tried
MaxL == 2            \* min-length values 0..MaxL are tried
MaxRecords == 3      \* a PAF holds at most this many alignment records
MaxRuns == 2         \* the program is run at most this many times on one directory
MaxCoord == 5        \* range coordinates -1..MaxCoord are tried

\* ------------------------------------------------------- small arithmetic
Min(a, b) == IF a <= b THEN a ELSE b
Max(a, b) == IF a >= b THEN a ELSE b
Abs(a) == IF a < 0 THEN -a ELSE a

\* Call by value: an argument is evaluated once, before the call, as in Rust.
Call1(Op(_), a) == CHOOSE r \in {Op(x) : x \in {a}} : TRUE
Call2(Op(_, _), a, b) == CHOOSE r \in {Op(x, y) : x \in {a}, y \in {b}} : TRUE
Call3(Op(_, _, _), a, b, c) ==
    CHOOSE r \in {Op(x, y, z) : x \in {a}, y \in {b}, z \in {c}} : TRUE
Call4(Op(_, _, _, _), a, b, c, d) ==
    CHOOSE r \in {Op(x, y, z, u) : x \in {a}, y \in {b}, z \in {c}, u \in {d}} : TRUE
Call5(Op(_, _, _, _, _), a, b, c, d, e) ==
    CHOOSE r \in {Op(x, y, z, u, v) : x \in {a}, y \in {b}, z \in {c}, u \in {d}, v \in {e}} : TRUE

RECURSIVE LexLeq(_, _)
LexLeq(a, b) ==
    IF a = <<>> THEN TRUE
    ELSE IF a[1] < b[1] THEN TRUE
    ELSE IF a[1] > b[1] THEN FALSE
    ELSE LexLeq(Tail(a), Tail(b))

\* Stable sort of a sequence of [key, val] pairs by key (slice::sort_by_key).
RECURSIVE InsertKeyed(_, _)
InsertKeyed(s, x) ==
    IF s = <<>> THEN <<x>>
    ELSE IF LexLeq(s[Len(s)].key, x.key) THEN Append(s, x)
    ELSE Append(Call2(InsertKeyed, SubSeq(s, 1, Len(s) - 1), x), s[Len(s)])

RECURSIVE SortKeyed(_)
SortKeyed(s) ==
    IF s = <<>> THEN <<>>
    ELSE Call2(InsertKeyed, Call1(SortKeyed, SubSeq(s, 1, Len(s) - 1)), s[Len(s)])

\* Iterator map collected into a Vec: an explicit sequence, element by element.
RECURSIVE Collect(_, _)
Collect(f, n) == IF n = 0 THEN <<>> ELSE Append(Collect(f, n - 1), f[n])

MapSeq(s, Op(_)) ==
    Call1(LAMBDA v : Collect([i \in 1..Len(v) |-> Op(v[i])], Len(v)), s)

\* A map built key by key.
RECURSIVE CollectMap(_, _)
CollectMap(f, keys) ==
    IF keys = {} THEN <<>>
    ELSE LET k == CHOOSE x \in keys : TRUE
         IN (k :> f[k]) @@ Call2(CollectMap, f, keys \ {k})

Vals(s) == MapSeq(s, LAMBDA x : x.val)

\* Every order slice::sort_unstable_by_key may leave: sorted by key, with
\* elements of equal key in any order.
RECURSIVE UnstableOrders(_)
UnstableOrders(s) ==
    IF s = <<>> THEN {<<>>}
    ELSE LET n == Len(s)
             least == {i \in 1..n : \A j \in 1..n : LexLeq(s[i].key, s[j].key)}
             without(i) == SubSeq(s, 1, i - 1) \o SubSeq(s, i + 1, n)
         IN UNION {{<<s[i].val>> \o rest : rest \in Call1(UnstableOrders, without(i))}
                   : i \in least}

\* An empty HashMap: a function whose domain is the key set.
EmptyMap == <<>>

\* ------------------------------------------------- the index (impg::impg)
\* Sequence ids are dense, 0-based; names are sequences of characters.
Seqs == {0, 1, 2}
get_name(id) ==
    CASE id = 0 -> <<"a">>
      [] id = 1 -> <<"a", "b">>
      [] id = 2 -> <<"c">>

\* The sequence lengths an index may hold.
SeqLenChoices ==
    { [id \in Seqs |-> CASE id = 0 -> 4 [] id = 1 -> 3 [] id = 2 -> 3],
      [id \in Seqs |-> CASE id = 0 -> 4 [] id = 1 -> 3 [] id = 2 -> 0],
      [id \in Seqs |-> CASE id = 0 -> 2 [] id = 1 -> 3 [] id = 2 -> 1] }

\* The prefixes a caller may pass.
PrefixChoices == { <<>>, <<"a">>, <<"a", "b">>, <<"c">>, <<"d">> }

starts_with(name, prefix) ==
    /\ Len(prefix) <= Len(name)
    /\ SubSeq(name, 1, Len(prefix)) = prefix

\* Alignment records a PAF may hold: target [ts,te) on tid aligned to query
\* [qs,qe) on qid, te - ts = qe - qs.
Catalogue ==
    << [tid |-> 0, ts |-> 0, te |-> 1, qid |-> 1, qs |-> 0, qe |-> 1, strand |-> "+"],
       [tid |-> 0, ts |-> 3, te |-> 4, qid |-> 1, qs |-> 2, qe |-> 3, strand |-> "+"],
       [tid |-> 1, ts |-> 1, te |-> 2, qid |-> 2, qs |-> 1, qe |-> 2, strand |-> "+"],
       [tid |-> 1, ts |-> 0, te |-> 3, qid |-> 0, qs |-> 0, qe |-> 3, strand |-> "-"],
       [tid |-> 2, ts |-> 0, te |-> 3, qid |-> 2, qs |-> 0, qe |-> 3, strand |-> "+"],
       [tid |-> 0, ts |-> 1, te |-> 2, qid |-> 2, qs |-> 0, qe |-> 1, strand |-> "-"] >>

Fits(r, lens) == r.te <= lens[r.tid] /\ r.qe <= lens[r.qid]

VARIABLES
    seq_len,           \* impg.seq_index: id -> length
    records,           \* impg: the indices (into Catalogue) of the alignments held
    window_size,       \* Args::Partition.window_size
    sequence_prefix,   \* Args::Partition.sequence_prefix
    min_length,        \* Args::Partition.min_length
    debug,             \* common.verbose > 1
    pc,                \* where partition_alignments stands
    windows,           \* the current window set
    widx,              \* position of the for loop in windows (1-based)
    masked_regions,    \* name -> sorted, merged ranges
    missing_regions,   \* name -> ranges
    partition_num,
    files,             \* the partition files written so far, in order
    iter_area,         \* total missing area when the current window set started
    iter_num           \* partition_num when the current window set started

VARIABLES
    force_reindex,     \* CommonOpts.force_reindex
    paf,               \* the PAF file: "missing", "malformed", "inconsistent" or its records
    paf_mtime,         \* the PAF's modification time against the snapshot's
    snapshot,          \* the file <paf>.impg
    ipc,               \* where initialize_impg stands
    impg,              \* the index initialize_impg returned, or NoImpg
    warned,            \* the warnings logged by this run
    run,               \* the number of this run of the program
    snapshot_at_start, \* the snapshot when this run started
    generated,         \* generate_index was entered in this run
    loaded,            \* load_index was entered in this run
    snapshot_writes,   \* the File::create calls on the snapshot that succeeded in this run
    left_by_failure    \* the snapshot was last written by a generate_index that failed

VARIABLES
    arg_target_range,  \* Args::Query.target_range: None or Some(text)
    arg_target_bed,    \* Args::Query.target_bed: None or Some(file)
    transitive,        \* Args::Query.transitive
    output_paf,        \* Args::Query.output_paf
    check_intervals,   \* Args::Query.check_intervals
    targets,           \* the parsed targets: (name, range, label)
    tidx,              \* position of the current target in targets (1-based)
    target_name,       \* the name of the queried target
    target_range,      \* (start, end) as parse_range returned it
    qpc,               \* where the query branch of main stands
    results,           \* the results of perform_query
    reported,          \* the violations logged with error!
    stdout,            \* the lines printed so far
    error              \* the kind of the io::Error main returned, or "none"

VARIABLES
    applied,           \* the function that was applied to given, or "none"
    given,             \* the Vec<AdjustedInterval> a function is applied to
    returned           \* what the function returned

partitionVars == <<window_size, sequence_prefix, min_length, debug, pc,
                   windows, widx, masked_regions, missing_regions, partition_num, files,
                   iter_area, iter_num>>

indexVars == <<force_reindex, paf, paf_mtime, snapshot, ipc, impg, warned, run,
               snapshot_at_start, generated, loaded, snapshot_writes, left_by_failure>>

queryVars == <<arg_target_range, arg_target_bed, transitive, output_paf, check_intervals,
               targets, tidx, target_name, target_range, qpc, results, reported, stdout,
               error>>

stepVars == <<applied, given, returned>>

vars == <<seq_len, records, partitionVars, indexVars, queryVars, stepVars>>

inputs == <<seq_len, records, window_size, sequence_prefix, min_length, debug>>

\* ------------------------------------------- Projector, query (spec 4.2, 4.4)
SelfEntry(id, s, e) ==
    [q |-> [first |-> s, last |-> e, metadata |-> id],
     cigar |-> <<<<e - s, "=">>>>,
     t |-> [first |-> s, last |-> e, metadata |-> id]]

Project(r, rs, re) ==
    LET a == Max(r.ts, rs)
        b == Min(r.te, re)
    IN [q |-> [first |-> IF r.strand = "+" THEN r.qs + (a - r.ts) ELSE r.qe - (a - r.ts),
               last |-> IF r.strand = "+" THEN r.qs + (b - r.ts) ELSE r.qe - (b - r.ts),
               metadata |-> r.qid],
        cigar |-> <<<<b - a, "=">>>>,
        t |-> [first |-> a, last |-> b, metadata |-> r.tid]]

\* The projections of target range [s,e) of id, in index order, without the
\* synthetic self-entry.
RECURSIVE Projections(_, _, _, _, _)
Projections(recs, i, id, s, e) ==
    IF i > Len(Catalogue) THEN <<>>
    ELSE LET r == Catalogue[i]
             hit == i \in recs /\ r.tid = id /\ r.ts < e /\ r.te > s
         IN (IF hit THEN <<Project(r, s, e)>> ELSE <<>>)
            \o Projections(recs, i + 1, id, s, e)

query(recs, id, s, e) == <<SelfEntry(id, s, e)>> \o Projections(recs, 1, id, s, e)

\* ------------------------------------------------ TransitiveEngine (spec 4.5)
\* The maximal runs of lo..hi-1 outside the position set cov, as (seq,a,b).
RECURSIVE UncoveredRuns(_, _, _, _, _)
UncoveredRuns(id, pos, hi, cov, open) ==
    \* open = -1, or the start of the run being scanned
    IF pos >= hi THEN (IF open >= 0 THEN <<<<id, open, hi>>>> ELSE <<>>)
    ELSE IF pos \in cov
         THEN (IF open >= 0 THEN <<<<id, open, pos>>>> ELSE <<>>)
              \o Call5(UncoveredRuns, id, pos + 1, hi, cov, -1)
         ELSE Call5(UncoveredRuns, id, pos + 1, hi, cov, IF open >= 0 THEN open ELSE pos)

RECURSIVE ExpandFold(_, _, _, _, _)
ExpandFold(projs, i, frontier, visited, found) ==
    IF i > Len(projs) THEN [frontier |-> frontier, visited |-> visited, found |-> found]
    ELSE LET p == projs[i]
             id == p.q.metadata
             lo == Min(p.q.first, p.q.last)
             hi == Max(p.q.first, p.q.last)
             runs == Call5(UncoveredRuns, id, lo, hi, visited[id], -1)
         IN IF runs = <<>>
            THEN Call5(ExpandFold, projs, i + 1, frontier, visited, found)
            ELSE Call5(ExpandFold, projs, i + 1, frontier \o runs,
                       [visited EXCEPT ![id] = @ \cup (lo..(hi - 1))],
                       Append(found, p))

RECURSIVE TransitiveLoop(_, _, _, _)
TransitiveLoop(recs, frontier, visited, found) ==
    IF frontier = <<>> THEN found
    ELSE LET cur == Head(frontier)
             expand(projs) == Call5(ExpandFold, projs, 1, Tail(frontier), visited, found)
             continue(st) == TransitiveLoop(recs, st.frontier, st.visited, st.found)
         IN Call1(continue, Call1(expand, Projections(recs, 1, cur[1], cur[2], cur[3])))

query_transitive(recs, id, s, e) ==
    Call4(TransitiveLoop, recs, <<<<id, s, e>>>>,
          CollectMap([x \in Seqs |-> IF x = id THEN s..(e - 1) ELSE {}], Seqs),
          <<SelfEntry(id, s, e)>>)

\* ------------------------------------------------ partitioner: pure steps
MergeDistance == 10000

QMin(o) == Min(o.q.first, o.q.last)
QMax(o) == Max(o.q.first, o.q.last)

Keyed(overlaps, key(_)) == MapSeq(overlaps, LAMBDA o : [key |-> key(o), val |-> o])

\* main.rs:337, the sort of the debug branch.
DebugKey(o) == <<o.q.metadata, IF o.q.first <= o.q.last THEN 1 ELSE 0, o.t.first>>
DebugSort(overlaps) == Vals(Call1(SortKeyed, Keyed(overlaps, DebugKey)))

\* main.rs:349-352
StartKey(o) == <<o.q.metadata, QMin(o)>>
SortByStart(overlaps) == Vals(Call1(SortKeyed, Keyed(overlaps, StartKey)))

\* A loop that never moves the current interval to its place.
SaveCurrentSkipped(ov, write_idx, current_idx) == ov

\* main.rs:354-386, indices 1-based: only the query interval (.0) is moved.
SaveCurrent(ov, write_idx, current_idx) ==
    IF current_idx # write_idx
    THEN [ov EXCEPT ![write_idx].q = ov[current_idx].q]
    ELSE ov

RECURSIVE NearMergeLoop(_, _, _, _)
NearMergeLoop(ov, read_idx, write_idx, current_idx) ==
    IF read_idx > Len(ov)
    THEN SubSeq(SaveCurrent(ov, write_idx, current_idx), 1, write_idx)
    ELSE LET interval == ov[read_idx]
             current == ov[current_idx]
             interval_min == QMin(interval)
             interval_max == QMax(interval)
             current_min == QMin(current)
             current_max == QMax(current)
         IN IF interval.q.metadata # current.q.metadata
               \/ interval_min > current_max + MergeDistance
            THEN Call4(NearMergeLoop, SaveCurrent(ov, write_idx, current_idx),
                       read_idx + 1, write_idx + 1, read_idx)
            ELSE Call4(NearMergeLoop,
                   [ov EXCEPT ![current_idx].q.first = Min(current_min, interval_min),
                              ![current_idx].q.last = Max(current_max, interval_max)],
                   read_idx + 1, write_idx, current_idx)

NearMerge(overlaps) ==
    IF overlaps = <<>> THEN <<>>
    ELSE Call4(NearMergeLoop, SortByStart(overlaps), 2, 1, 1)

\* main.rs:629-654
RangeKey(r) == <<r[1]>>
SortRanges(ranges) ==
    Vals(Call1(SortKeyed, MapSeq(ranges, LAMBDA r : [key |-> RangeKey(r), val |-> r])))

RECURSIVE MergeFold(_, _, _, _)
MergeFold(sorted, i, current, merged) ==
    IF i > Len(sorted) THEN Append(merged, current)
    ELSE LET start == sorted[i][1]
             end == sorted[i][2]
         IN IF start <= current[2] + 1
            THEN Call4(MergeFold, sorted, i + 1, <<current[1], Max(current[2], end)>>, merged)
            ELSE Call4(MergeFold, sorted, i + 1, <<start, end>>, Append(merged, current))

\* A merge_ranges that sorts and leaves the ranges unfused.
MergeRangesSortOnly(ranges) == SortRanges(ranges)

merge_ranges(ranges) ==
    IF ranges = <<>> THEN <<>>
    ELSE LET fold(sorted) == Call4(MergeFold, sorted, 2, sorted[1], <<>>)
         IN Call1(fold, SortRanges(ranges))

\* main.rs:497-523: the unmasked segments of [start,end).
RECURSIVE UnmaskedSegments(_, _, _, _, _)
UnmaskedSegments(masks, i, curr_pos, end, segs) ==
    LET final == IF curr_pos < end THEN Append(segs, <<curr_pos, end>>) ELSE segs
    IN IF i > Len(masks) THEN final
       ELSE LET mask_start == masks[i][1]
                mask_end == masks[i][2]
            IN IF mask_start >= end THEN final
               ELSE IF mask_end <= curr_pos
                    THEN Call5(UnmaskedSegments, masks, i + 1, curr_pos, end, segs)
                    ELSE Call5(UnmaskedSegments, masks, i + 1, mask_end, end,
                               IF curr_pos < mask_start
                               THEN Append(segs, <<curr_pos, mask_start>>)
                               ELSE segs)

\* main.rs:526-546: one surviving segment of an overlap; the target is scaled
\* by the fraction of the query span (the f64 product truncated to i32).
SegmentOf(o, start, end, seg) ==
    LET query_len == end - start
        target_span == o.t.last - o.t.first
    IN [q |-> [first |-> seg[1], last |-> seg[2], metadata |-> o.q.metadata],
        cigar |-> o.cigar,
        t |-> [first |-> o.t.first + (((seg[1] - start) * target_span) \div query_len),
               last |-> o.t.first + (((seg[2] - start) * target_span) \div query_len),
               metadata |-> o.t.metadata]]

\* A subtraction that forgets the segment after the last mask.
SubtractOneDropsTail(o, masked) ==
    IF o.q.metadata \in DOMAIN masked
    THEN LET start == QMin(o)
             end == QMax(o)
             segs == Call5(UnmaskedSegments, masked[o.q.metadata], 1, start, end, <<>>)
             kept == IF segs # <<>> /\ segs[Len(segs)][2] = end /\ Len(segs) > 1
                     THEN SubSeq(segs, 1, Len(segs) - 1)
                     ELSE segs
         IN MapSeq(kept, LAMBDA seg : SegmentOf(o, start, end, seg))
    ELSE <<o>>

\* A subtraction that forgets the mask.
SubtractOneIgnoresMask(o, masked) == <<o>>

SubtractOne(o, masked) ==
    IF o.q.metadata \in DOMAIN masked
    THEN LET start == QMin(o)
             end == QMax(o)
             segs == Call5(UnmaskedSegments, masked[o.q.metadata], 1, start, end, <<>>)
         IN MapSeq(segs, LAMBDA seg : SegmentOf(o, start, end, seg))
    ELSE <<o>>

\* main.rs:478-554
RECURSIVE subtract_masked_regions(_, _)
subtract_masked_regions(overlaps, masked) ==
    IF overlaps = <<>> THEN <<>>
    ELSE SubtractOne(Head(overlaps), masked)
         \o Call2(subtract_masked_regions, Tail(overlaps), masked)

\* main.rs:563-572
RangeOf(o) == <<QMin(o), QMax(o)>>
NewMasksOf(overlaps, id) ==
    LET mine == SelectSeq(overlaps, LAMBDA o : o.q.metadata = id)
    IN MapSeq(mine, RangeOf)

\* main.rs:591-611: the current ranges minus one mask.
RECURSIVE NextRanges(_, _)
NextRanges(current_ranges, mask) ==
    IF current_ranges = <<>> THEN <<>>
    ELSE LET curr_start == Head(current_ranges)[1]
             curr_end == Head(current_ranges)[2]
             here == IF curr_end <= mask[1] THEN <<<<curr_start, curr_end>>>>
                     ELSE IF curr_start >= mask[2] THEN <<<<curr_start, curr_end>>>>
                     ELSE (IF curr_start < mask[1] THEN <<<<curr_start, mask[1]>>>> ELSE <<>>)
                          \o (IF curr_end > mask[2] THEN <<<<mask[2], curr_end>>>> ELSE <<>>)
         IN here \o Call2(NextRanges, Tail(current_ranges), mask)

RECURSIVE SubtractMasks(_, _, _)
SubtractMasks(current_ranges, masked, i) ==
    IF i > Len(masked) THEN current_ranges
    ELSE Call3(SubtractMasks, Call2(NextRanges, current_ranges, masked[i]), masked, i + 1)

\* main.rs:582-616
RECURSIVE NewMissing(_, _)
NewMissing(missing, masked) ==
    IF missing = <<>> THEN <<>>
    ELSE Call3(SubtractMasks, <<Head(missing)>>, masked, 1)
         \o Call2(NewMissing, Tail(missing), masked)

\* An update that drops the new coverage.
UpdateMaskedDropsNew(old, new_ranges) == Call1(merge_ranges, old)

\* An update that leaves the missing ranges as they were.
UpdateMissingKeepsAll(missing, masked) == Call1(merge_ranges, missing)

\* main.rs:576-578
UpdateMasked(old, new_ranges) == Call1(merge_ranges, old \o new_ranges)

\* main.rs:581-619
UpdateMissing(missing, masked) == Call1(merge_ranges, Call2(NewMissing, missing, masked))

\* main.rs:556-627.  The sequences of new_masks are updated independently, so
\* the iteration order of the HashMap does not show in the result.
update_masked_and_missing_regions(masked, missing, overlaps) ==
    LET keys == {overlaps[i].q.metadata : i \in 1..Len(overlaps)}
        new_masked ==
            CollectMap([id \in (DOMAIN masked) \cup keys |->
                          IF id \in keys
                          THEN UpdateMasked(IF id \in DOMAIN masked THEN masked[id] ELSE <<>>,
                                            NewMasksOf(overlaps, id))
                          ELSE masked[id]],
                       (DOMAIN masked) \cup keys)
        new_missing(masked2) ==
            CollectMap([id \in DOMAIN missing |->
                          IF id \in keys THEN UpdateMissing(missing[id], masked2[id])
                          ELSE missing[id]],
                       DOMAIN missing)
        retain(missing2) ==
            CollectMap(missing2, {id \in DOMAIN missing : ~(id \in keys /\ missing2[id] = <<>>)})
        result(masked2) ==
            [masked |-> masked2, missing |-> Call1(retain, new_missing(masked2))]
    IN Call1(result, new_masked)

\* An extension that also grows the intervals of length min_len.
ExtendOneAtMost(o, lens, min_len) ==
    IF Abs(o.q.last - o.q.first) <= min_len
    THEN [o EXCEPT !.q.first = IF o.q.first <= o.q.last
                                THEN Max(0, o.q.first - min_len)
                                ELSE Min(lens[o.q.metadata], o.q.first + min_len),
                   !.q.last = IF o.q.first <= o.q.last
                               THEN Min(lens[o.q.metadata], o.q.last + min_len)
                               ELSE Max(0, o.q.last - min_len),
                   !.t.first = o.t.first - min_len,
                   !.t.last = o.t.last + min_len]
    ELSE o

\* main.rs:663-685
ExtendOne(o, lens, min_len) ==
    LET len == Abs(o.q.last - o.q.first)
        sl == lens[o.q.metadata]
    IN IF len < min_len
       THEN IF o.q.first <= o.q.last
            THEN [o EXCEPT !.q.first = Max(0, o.q.first - min_len),
                           !.q.last = Min(sl, o.q.last + min_len),
                           !.t.first = o.t.first - min_len,
                           !.t.last = o.t.last + min_len]
            ELSE [o EXCEPT !.q.last = Max(0, o.q.last - min_len),
                           !.q.first = Min(sl, o.q.first + min_len),
                           !.t.first = o.t.first - min_len,
                           !.t.last = o.t.last + min_len]
       ELSE o

\* main.rs:656-690: the set of results, one per order the unstable sort may leave.
extend_short_intervals(overlaps, lens, min_len) ==
    Call1(UnstableOrders, MapSeq(overlaps, LAMBDA o :
        LET x == ExtendOne(o, lens, min_len)
        IN [key |-> StartKey(x), val |-> x]))

\* A writer that prints first and last as they are stored.
FileLinesAsStored(overlaps) ==
    MapSeq(overlaps, LAMBDA o : <<o.q.metadata, o.q.first, o.q.last>>)

\* main.rs:422-430: the lines of a partition file.
FileLines(overlaps) ==
    MapSeq(overlaps, LAMBDA o :
        IF o.q.first <= o.q.last
        THEN <<o.q.metadata, o.q.first, o.q.last>>
        ELSE <<o.q.metadata, o.q.last, o.q.first>>)

\* main.rs:268-273 and 462-467: the tiles of [pos,end); with window_size = 0
\* the while loop never advances (TileHangs).
TileHangs(start, end, w) == w = 0 /\ start < end

RECURSIVE Tile(_, _, _, _)
Tile(chrom, pos, end, w) ==
    IF pos >= end THEN <<>>
    ELSE LET window_end == Min(pos + w, end)
         IN <<<<chrom, pos, window_end>>>> \o Call4(Tile, chrom, window_end, end, w)

\* --------------------------------------------------- partition_alignments
RECURSIVE SumLengths(_)
SumLengths(ranges) ==
    IF ranges = <<>> THEN 0
    ELSE (Head(ranges)[2] - Head(ranges)[1]) + Call1(SumLengths, Tail(ranges))

RECURSIVE AreaOver(_, _)
AreaOver(missing, ids) ==
    IF ids = {} THEN 0
    ELSE LET id == CHOOSE x \in ids : TRUE
         IN SumLengths(missing[id]) + Call2(AreaOver, missing, ids \ {id})

\* The sum of (end - start) over all ranges stored in a region map.
MissingArea(missing) == AreaOver(missing, DOMAIN missing)

\* A sampling that takes every indexed sequence.
SampleIdsAll == Seqs

\* main.rs:250-257: the ids whose name starts with the prefix.
SampleIds == {id \in Seqs : starts_with(get_name(id), sequence_prefix)}

\* main.rs:266-274: the tiles of the sample regions, in id order.
RECURSIVE InitialWindows(_)
InitialWindows(id) ==
    IF id \notin Seqs THEN <<>>
    ELSE (IF id \in SampleIds THEN Tile(id, 0, seq_len[id], window_size) ELSE <<>>)
         \o InitialWindows(id + 1)

NoImpg == [from |-> "none", records |-> {}]
Absent == [kind |-> "absent", records |-> {}]

\* The values of the variables of the parts of main that a specification
\* leaves out.
PartitionIdle ==
    /\ window_size = 0
    /\ sequence_prefix = <<>>
    /\ min_length = 0
    /\ debug = FALSE
    /\ pc = "idle"
    /\ windows = <<>>
    /\ widx = 1
    /\ masked_regions = EmptyMap
    /\ missing_regions = EmptyMap
    /\ partition_num = 0
    /\ files = <<>>
    /\ iter_area = 0
    /\ iter_num = 0

IndexIdle ==
    /\ force_reindex = FALSE
    /\ paf = [state |-> "ok", records |-> {}]
    /\ paf_mtime = "older"
    /\ snapshot = Absent
    /\ ipc = "idle"
    /\ impg = NoImpg
    /\ warned = {}
    /\ run = 1
    /\ snapshot_at_start = Absent
    /\ generated = FALSE
    /\ loaded = FALSE
    /\ snapshot_writes = 0
    /\ left_by_failure = FALSE

QueryIdle ==
    /\ arg_target_range = <<>>
    /\ arg_target_bed = <<>>
    /\ transitive = FALSE
    /\ output_paf = FALSE
    /\ check_intervals = FALSE
    /\ targets = <<>>
    /\ tidx = 0
    /\ target_name = <<>>
    /\ target_range = <<0, 0>>
    /\ qpc = "idle"
    /\ results = <<>>
    /\ reported = <<>>
    /\ stdout = <<>>
    /\ error = "none"

StepsIdle ==
    /\ applied = "idle"
    /\ given = <<>>
    /\ returned = <<>>

\* The indexes main may hold once initialize_impg has returned.
IndexChoice ==
    /\ seq_len \in SeqLenChoices
    /\ records \in {R \in SUBSET (1..Len(Catalogue)) :
                      /\ Cardinality(R) <= MaxRecords
                      /\ \A i \in R : Fits(Catalogue[i], seq_len)}

Init ==
    /\ IndexChoice
    /\ window_size \in 0..MaxW
    /\ sequence_prefix \in PrefixChoices
    /\ min_length \in 0..MaxL
    /\ debug \in BOOLEAN
    /\ pc = "start"
    /\ windows = <<>>
    /\ widx = 1
    /\ masked_regions = EmptyMap
    /\ missing_regions = EmptyMap
    /\ partition_num = 0
    /\ files = <<>>
    /\ iter_area = 0
    /\ iter_num = 0
    /\ IndexIdle
    /\ QueryIdle
    /\ StepsIdle

\* main.rs:249-299: up to the first test of the while loop.
Start ==
    /\ pc = "start"
    /\ IF SampleIds = {}
       THEN /\ pc' = "err"
            /\ UNCHANGED <<windows, missing_regions, iter_area>>
       ELSE IF \E id \in SampleIds : TileHangs(0, seq_len[id], window_size)
       THEN /\ pc' = "hang"
            /\ UNCHANGED <<windows, missing_regions, iter_area>>
       ELSE LET full == [id \in Seqs |-> <<<<0, seq_len[id]>>>>]
            IN /\ windows' = InitialWindows(0)
               /\ missing_regions' = full
               /\ iter_area' = MissingArea(full)
               /\ pc' = IF InitialWindows(0) = <<>> THEN "done" ELSE "loop"
    /\ UNCHANGED <<inputs, indexVars, queryVars, stepVars, widx, masked_regions, partition_num, files, iter_num>>

\* A window body that updates the region maps after the extension.
WindowOverlapsExtendFirst(w, recs, dbg, masked, missing) ==
    LET near(found) == NearMerge(IF dbg THEN DebugSort(found) ELSE found)
        subtract(merged) == subtract_masked_regions(merged, masked)
        update(overlaps) ==
            [overlaps |-> overlaps,
             upd |-> update_masked_and_missing_regions(masked, missing,
                        CHOOSE x \in extend_short_intervals(overlaps, seq_len, min_length) :
                            TRUE)]
    IN Call1(update, Call1(subtract, Call1(near, query_transitive(recs, w[1], w[2], w[3]))))

\* main.rs:324-414: the overlaps of one window and the region maps they leave.
WindowOverlaps(w, recs, dbg, masked, missing) ==
    LET near(found) == NearMerge(IF dbg THEN DebugSort(found) ELSE found)
        subtract(merged) == subtract_masked_regions(merged, masked)
        update(overlaps) ==
            [overlaps |-> overlaps,
             upd |-> update_masked_and_missing_regions(masked, missing, overlaps)]
    IN Call1(update, Call1(subtract, Call1(near, query_transitive(recs, w[1], w[2], w[3]))))

\* A counter that is not advanced.
PartitionNumKept(n) == n

\* main.rs:432
NextPartitionNum(n) == n + 1

\* main.rs:324-436: one window of the for loop.
ProcessWindow ==
    /\ pc = "loop"
    /\ widx <= Len(windows)
    /\ \E body \in {WindowOverlaps(windows[widx], records, debug,
                                   masked_regions, missing_regions)} :
          IF body.overlaps = <<>>
          THEN /\ pc' = "panic"
               /\ UNCHANGED <<widx, masked_regions, missing_regions, partition_num, files>>
          ELSE /\ masked_regions' = body.upd.masked
               /\ missing_regions' = body.upd.missing
               /\ \E extended \in extend_short_intervals(body.overlaps, seq_len, min_length) :
                  \E lines \in {FileLines(extended)} :
                    \E written \in 0..(Len(lines) + 1) :
                         \* written = Len(lines) + 1: File::create fails;
                         \* written < Len(lines): a writeln! fails after that many lines
                         IF written = Len(lines)
                         THEN /\ files' = Append(files, lines)
                              /\ partition_num' = NextPartitionNum(partition_num)
                              /\ widx' = widx + 1
                              /\ pc' = "loop"
                         ELSE /\ files' = IF written > Len(lines) THEN files
                                          ELSE Append(files, SubSeq(lines, 1, written))
                              /\ pc' = "err"
                              /\ UNCHANGED <<partition_num, widx>>
    /\ UNCHANGED <<inputs, indexVars, queryVars, stepVars, windows, iter_area, iter_num>>

\* main.rs:446-458: the region the scan may keep.  The HashMap is walked in
\* any order and only a strictly longer range replaces the one kept, so the
\* result is the first longest range of any sequence that holds one.
MissingRanges ==
    UNION {{<<id, i>> : i \in 1..Len(missing_regions[id])} : id \in DOMAIN missing_regions}

RangeLength(x) == missing_regions[x[1]][x[2]][2] - missing_regions[x[1]][x[2]][1]

max_length ==
    LET lens == {0} \cup {RangeLength(x) : x \in MissingRanges}
    IN CHOOSE m \in lens : \A n \in lens : n <= m

\* A scan that keeps the first range it meets, whatever its length.
AnyRegions ==
    IF max_length = 0 THEN {<<>>}
    ELSE {<<x[1], missing_regions[x[1]][x[2]][1], missing_regions[x[1]][x[2]][2]>> :
            x \in {y \in MissingRanges : RangeLength(y) > 0}}

\* <<>> stands for None.
LongestRegions ==
    IF max_length = 0 THEN {<<>>}
    ELSE {<<x[1], missing_regions[x[1]][x[2]][1], missing_regions[x[1]][x[2]][2]>> :
            x \in {y \in MissingRanges :
                     /\ RangeLength(y) = max_length
                     /\ \A i \in 1..(y[2] - 1) : RangeLength(<<y[1], i>>) # max_length}}

\* main.rs:438-471 and the test of the while loop at 299.
EndWindowSet ==
    /\ pc = "loop"
    /\ widx > Len(windows)
    /\ IF DOMAIN missing_regions = {}
       THEN /\ pc' = "done"
            /\ UNCHANGED <<windows, widx, iter_area, iter_num>>
       ELSE \E longest_region \in LongestRegions :
              IF longest_region = <<>>
              THEN /\ windows' = <<>>
                   /\ pc' = "done"
                   /\ UNCHANGED <<widx, iter_area, iter_num>>
              ELSE IF TileHangs(longest_region[2], longest_region[3], window_size)
              THEN /\ pc' = "hang"
                   /\ UNCHANGED <<windows, widx, iter_area, iter_num>>
              ELSE /\ windows' = Tile(longest_region[1], longest_region[2],
                                      longest_region[3], window_size)
                   /\ widx' = 1
                   /\ pc' = "loop"
                   /\ iter_area' = MissingArea(missing_regions)
                   /\ iter_num' = partition_num
    /\ UNCHANGED <<inputs, indexVars, queryVars, stepVars, masked_regions, missing_regions, partition_num, files>>

Next == Start \/ ProcessWindow \/ EndWindowSet

Spec == Init /\ [][Next]_vars

\* partition_alignments is one sequential loop: it takes its next step as long
\* as it has one.
SpecLive == Init /\ [][Next]_vars /\ WF_vars(Next)

\* --------------------------------------------------------- initialize_impg
PafChoices ==
    {[state |-> st, records |-> {}] : st \in {"missing", "malformed", "inconsistent"}}
    \cup {[state |-> "ok", records |-> R] : R \in {{1}, {1, 2, 3}}}

MtimeChoices == {"newer", "older", "unavailable"}

Complete(R) == [kind |-> "complete", records |-> R]
Empty == [kind |-> "empty", records |-> {}]
Partial == [kind |-> "partial", records |-> {}]

\* main.rs:186-190
IndexPath(force) == IF force THEN "generate_index" ELSE "load_or_generate_index"

\* A selection that rebuilds when the PAF is newer than the snapshot.
SnapshotPathIfFresh(exists) ==
    IF exists /\ paf_mtime # "newer" THEN "load_index" ELSE "generate_index"

\* main.rs:195-199
SnapshotPath(exists) == IF exists THEN "load_index" ELSE "generate_index"

\* main.rs:207-214
MtimeWarnings(mtime) ==
    IF mtime = "unavailable" THEN {"unable to compare"}
    ELSE IF mtime = "newer" THEN {"modified since"}
    ELSE {}

\* What File::create, bincode::serialize_into and the drop of the BufWriter
\* may do to the snapshot (main.rs:235-237).  serialize_into takes the writer
\* by value: the bytes still buffered when it returns are flushed by the
\* drop, which ignores a failure.
WriteOutcomes ==
    {"create fails", "serialize fails, nothing written", "serialize fails, part written",
     "flush on drop fails", "written"}

InitIndex ==
    /\ seq_len = CHOOSE l \in SeqLenChoices : \A i \in 1..Len(Catalogue) : Fits(Catalogue[i], l)
    /\ records = {}
    /\ PartitionIdle
    /\ QueryIdle
    /\ StepsIdle
    /\ force_reindex \in BOOLEAN
    /\ paf \in PafChoices
    /\ paf_mtime \in MtimeChoices
    /\ snapshot \in {Absent} \cup {Complete(R) : R \in {{1}, {1, 2, 3}}}
    /\ ipc = "initialize_impg"
    /\ impg = NoImpg
    /\ warned = {}
    /\ run = 1
    /\ snapshot_at_start = snapshot
    /\ generated = FALSE
    /\ loaded = FALSE
    /\ snapshot_writes = 0
    /\ left_by_failure = FALSE

indexFrame == <<seq_len, records, partitionVars, queryVars, stepVars>>

\* main.rs:169-191
InitializeImpg ==
    /\ ipc = "initialize_impg"
    /\ ipc' = IndexPath(force_reindex)
    /\ UNCHANGED <<indexFrame, force_reindex, paf, paf_mtime, snapshot, impg, warned, run,
                   snapshot_at_start, generated, loaded, snapshot_writes, left_by_failure>>

\* main.rs:193-200
LoadOrGenerateIndex ==
    /\ ipc = "load_or_generate_index"
    /\ ipc' = SnapshotPath(snapshot.kind # "absent")
    /\ UNCHANGED <<indexFrame, force_reindex, paf, paf_mtime, snapshot, impg, warned, run,
                   snapshot_at_start, generated, loaded, snapshot_writes, left_by_failure>>

\* main.rs:202-220
LoadIndex ==
    /\ ipc = "load_index"
    /\ loaded' = TRUE
    /\ IF paf.state = "missing" \/ snapshot.kind = "absent"
       THEN \* std::fs::metadata fails
            /\ ipc' = "err"
            /\ UNCHANGED <<impg, warned>>
       ELSE /\ warned' = warned \cup MtimeWarnings(paf_mtime)
            /\ IF snapshot.kind = "complete"
               THEN /\ impg' = [from |-> "snapshot", records |-> snapshot.records]
                    /\ ipc' = "ok"
               ELSE \* bincode::deserialize_from fails
                    /\ ipc' = "err"
                    /\ UNCHANGED impg
    /\ UNCHANGED <<indexFrame, force_reindex, paf, paf_mtime, snapshot, run,
                   snapshot_at_start, generated, snapshot_writes, left_by_failure>>

\* main.rs:222-240
GenerateIndex ==
    /\ ipc = "generate_index"
    /\ generated' = TRUE
    /\ IF paf.state # "ok"
       THEN \* File::open, paf::parse_paf or Impg::from_paf_records fails
            /\ ipc' = "err"
            /\ UNCHANGED <<snapshot, impg, snapshot_writes, left_by_failure>>
       ELSE \E outcome \in WriteOutcomes :
              IF outcome = "create fails"
              THEN /\ ipc' = "err"
                   /\ UNCHANGED <<snapshot, impg, snapshot_writes, left_by_failure>>
              ELSE /\ snapshot_writes' = snapshot_writes + 1
                   /\ snapshot' = CASE outcome = "written" -> Complete(paf.records)
                                    [] outcome = "serialize fails, nothing written" -> Empty
                                    [] OTHER -> Partial
                   /\ IF outcome \in {"written", "flush on drop fails"}
                      THEN /\ ipc' = "ok"
                           /\ impg' = [from |-> "paf", records |-> paf.records]
                           /\ left_by_failure' = FALSE
                      ELSE /\ ipc' = "err"
                           /\ left_by_failure' = TRUE
                           /\ UNCHANGED impg
    /\ UNCHANGED <<indexFrame, force_reindex, paf, paf_mtime, warned, run,
                   snapshot_at_start, loaded>>

\* The program is started again on the same files.
Rerun ==
    /\ ipc \in {"ok", "err"}
    /\ run < MaxRuns
    /\ run' = run + 1
    /\ force_reindex' \in BOOLEAN
    /\ paf_mtime' \in MtimeChoices
    /\ ipc' = "initialize_impg"
    /\ impg' = NoImpg
    /\ warned' = {}
    /\ snapshot_at_start' = snapshot
    /\ generated' = FALSE
    /\ loaded' = FALSE
    /\ snapshot_writes' = 0
    /\ UNCHANGED <<indexFrame, paf, snapshot, left_by_failure>>

NextIndex == InitializeImpg \/ LoadOrGenerateIndex \/ LoadIndex \/ GenerateIndex \/ Rerun

SpecIndex == InitIndex /\ [][NextIndex]_vars

\* ---------------------------------------------------- main, the query branch
\* Texts are sequences of one-character strings; Option<T> is a sequence of
\* at most one element.
None == <<>>
Some(x) == <<x>>

Ok(v) == [ok |-> TRUE, val |-> v, kind |-> "none"]
Err(k) == [ok |-> FALSE, val |-> <<>>, kind |-> k]

I32Max == 2147483647

Digits == <<"0", "1", "2", "3", "4", "5", "6", "7", "8", "9">>
IsDigit(c) == \E d \in 1..Len(Digits) : Digits[d] = c
DigitVal(c) == (CHOOSE d \in 1..Len(Digits) : Digits[d] = c) - 1

\* str::parse::<i32> on the digits s[i..]: checked multiply and add (for a
\* negative number, checked subtract), an overflow or a non-digit is an error.
RECURSIVE ParseDigits(_, _, _, _)
ParseDigits(s, i, negative, acc) ==
    IF i > Len(s) THEN Ok(acc)
    ELSE IF ~IsDigit(s[i]) THEN Err("InvalidDigit")
    ELSE LET d == DigitVal(s[i])
         IN IF negative
            THEN IF acc < (d - I32Max - 1) \div 10 + (IF (d - I32Max - 1) % 10 = 0 THEN 0 ELSE 1)
                 THEN Err("NegOverflow")
                 ELSE Call4(ParseDigits, s, i + 1, negative, acc * 10 - d)
            ELSE IF acc > (I32Max - d) \div 10
                 THEN Err("PosOverflow")
                 ELSE Call4(ParseDigits, s, i + 1, negative, acc * 10 + d)

\* str::parse::<i32>: an optional sign, then at least one digit.
ParseI32(s) ==
    IF s = <<>> THEN Err("Empty")
    ELSE IF s[1] \in {"+", "-"}
         THEN IF Len(s) = 1 THEN Err("InvalidDigit")
              ELSE ParseDigits(s, 2, s[1] = "-", 0)
         ELSE ParseDigits(s, 1, FALSE, 0)

\* str::split(ch): the pieces between the occurrences of ch, empty ones kept.
RECURSIVE SplitFrom(_, _, _, _)
SplitFrom(s, ch, i, piece) ==
    IF i > Len(s) THEN <<piece>>
    ELSE IF s[i] = ch THEN <<piece>> \o Call4(SplitFrom, s, ch, i + 1, <<>>)
    ELSE Call4(SplitFrom, s, ch, i + 1, Append(piece, s[i]))

Split(s, ch) == SplitFrom(s, ch, 1, <<>>)

\* str::rsplitn(2, ch): what follows the last ch, then what precedes it; the
\* whole text when ch does not occur.
RSplit2(s, ch) ==
    IF \E i \in 1..Len(s) : s[i] = ch
    THEN LET last == CHOOSE i \in 1..Len(s) :
                        s[i] = ch /\ \A j \in (i + 1)..Len(s) : s[j] # ch
         IN <<SubSeq(s, last + 1, Len(s)), SubSeq(s, 1, last - 1)>>
    ELSE <<s>>

\* A parse_range without the test of main.rs:730-732.
ParseRangeAcceptsAny(range_parts) ==
    IF Len(range_parts) # 2 THEN Err("InvalidInput")
    ELSE LET start == ParseI32(range_parts[1])
             end == ParseI32(range_parts[2])
         IN IF ~start.ok THEN Err("InvalidInput")
            ELSE IF ~end.ok THEN Err("InvalidInput")
            ELSE Ok(<<start.val, end.val>>)

\* main.rs:722-735
parse_range(range_parts) ==
    IF Len(range_parts) # 2 THEN Err("InvalidInput")
    ELSE LET start == ParseI32(range_parts[1])
             end == ParseI32(range_parts[2])
         IN IF ~start.ok THEN Err("InvalidInput")
            ELSE IF ~end.ok THEN Err("InvalidInput")
            ELSE IF start.val >= end.val THEN Err("InvalidInput")
            ELSE Ok(<<start.val, end.val>>)

\* main.rs:692-700
parse_target_range(text) ==
    LET parts == RSplit2(text, ":")
    IN IF Len(parts) # 2 THEN Err("InvalidInput")
       ELSE LET range == parse_range(Split(parts[1], "-"))
            IN IF ~range.ok THEN range
               ELSE Ok([name |-> parts[2], range |-> range.val, label |-> None])

\* main.rs:707-717: the lines of the BED file from line i on, pushed to ranges.
RECURSIVE ParseBedLines(_, _, _)
ParseBedLines(lines, i, ranges) ==
    IF i > Len(lines) THEN Ok(ranges)
    ELSE LET parts == Split(lines[i], "\t")
         IN IF Len(parts) < 3 THEN Err("InvalidInput")
            ELSE LET range == parse_range(SubSeq(parts, 2, 3))
                 IN IF ~range.ok THEN range
                    ELSE Call3(ParseBedLines, lines, i + 1,
                               Append(ranges,
                                      [name |-> parts[1], range |-> range.val,
                                       label |-> IF Len(parts) >= 4 THEN Some(parts[4])
                                                 ELSE None]))

\* A BED file that File::open does not find.
MissingFile == [exists |-> FALSE, lines |-> <<>>]
BedFile(lines) == [exists |-> TRUE, lines |-> lines]

\* main.rs:702-720
parse_bed_file(file) ==
    IF ~file.exists THEN Err("NotFound")
    ELSE ParseBedLines(file.lines, 1, <<>>)

NotFound == -1

\* SequenceIndex.get_id (spec 4.1)
get_id(name) ==
    IF \E id \in Seqs : get_name(id) = name
    THEN CHOOSE id \in Seqs : get_name(id) = name
    ELSE NotFound

TargetNameChoices == {get_name(id) : id \in Seqs} \cup {<<"z">>}

\* The texts a caller may give for a start or an end.
NumberTexts ==
    { <<"0">>, <<"1">>, <<"3">>, <<"5">>, <<"+", "2">>, <<"-", "1">>, <<>>, <<"x">>,
      <<"2", "1", "4", "7", "4", "8", "3", "6", "4", "8">> }

\* The values of --target-range a caller may give.
TargetRangeChoices ==
    {name \o <<":">> \o s \o <<"-">> \o e :
        name \in TargetNameChoices, s \in NumberTexts, e \in NumberTexts}
    \cup {<<"a", "0", "-", "3">>}

Tab == "\t"

\* The lines a BED file may hold.
BedLineChoices ==
    { <<"a", Tab, "0", Tab, "3">>,
      <<"a", "b", Tab, "1", Tab, "3", Tab, "n">>,
      <<"c", Tab, "-", "1", Tab, "1">>,
      <<"a", Tab, "3", Tab, "0">>,
      <<"a", "b", Tab, "1", Tab, "1">>,
      <<"c", Tab, "0">>,
      <<"z", Tab, "0", Tab, "1">> }

MaxBedLines == 2

\* The values of --target-bed a caller may give.
TargetBedChoices ==
    {MissingFile}
    \cup {BedFile(lines) : lines \in UNION {[1..n -> BedLineChoices] : n \in 0..MaxBedLines}}

\* impg::impg::check_intervals (spec 4.4): the violations found in results.
check_intervals_of(res) ==
    {<<>>} \cup {<<res[i]>> : i \in 1..Len(res)}

\* An iterator that skips nothing.
SkipNone(res) == res

\* Iterator::skip(1)
Skip1(res) == IF res = <<>> THEN <<>> ELSE Tail(res)

\* The (first, last, strand) an output function prints for a query interval,
\* printing the interval as it stands.
PrintedAsStored(q) == <<q.first, q.last, IF q.first <= q.last THEN "+" ELSE "-">>

\* main.rs:754-758, 770-774, 788-792
Printed(q) ==
    IF q.first <= q.last
    THEN <<q.first, q.last, "+">>
    ELSE <<q.last, q.first, "-">>

\* main.rs:751-761
output_results_bed(res) ==
    MapSeq(res, LAMBDA r :
        LET p == Printed(r.q)
        IN <<get_name(r.q.metadata), p[1], p[2], ".", ".", p[3]>>)

\* main.rs:763-779
output_results_bedpe(res, name, label) ==
    MapSeq(res, LAMBDA r :
        LET p == Printed(r.q)
        IN <<get_name(r.q.metadata), p[1], p[2],
             name, r.t.first, r.t.last,
             IF label = None THEN <<".">> ELSE label[1], 0, p[3], "+">>)

\* main.rs:796-807: (matches, mismatches, insertions, inserted_bp, deletions,
\* deleted_bp, block_len) of the CIGAR operations from i on.
RECURSIVE CigarFold(_, _, _)
CigarFold(cigar, i, acc) ==
    IF i > Len(cigar) THEN acc
    ELSE LET len == cigar[i][1]
             op == cigar[i][2]
         IN Call3(CigarFold, cigar, i + 1,
                  CASE op \in {"M", "="} -> [acc EXCEPT ![1] = @ + len, ![7] = @ + len]
                    [] op = "X" -> [acc EXCEPT ![2] = @ + len, ![7] = @ + len]
                    [] op = "I" -> [acc EXCEPT ![3] = @ + 1, ![4] = @ + len, ![7] = @ + len]
                    [] op = "D" -> [acc EXCEPT ![5] = @ + 1, ![6] = @ + len, ![7] = @ + len]
                    [] OTHER -> acc)

\* The decimal digits of n >= 0.
RECURSIVE ToText(_)
ToText(n) ==
    IF n < 10 THEN <<Digits[n + 1]>>
    ELSE Append(Call1(ToText, n \div 10), Digits[(n % 10) + 1])

\* trim_end_matches(ch)
RECURSIVE TrimEnd(_, _)
TrimEnd(s, ch) ==
    IF s # <<>> /\ s[Len(s)] = ch THEN Call2(TrimEnd, SubSeq(s, 1, Len(s) - 1), ch) ELSE s

Million == 1000000

\* main.rs:808-815: format!("{:.6}", num / den) without its trailing zeros and
\* point; 0.0 / 0.0 prints as NaN.
FormatIdentity(num, den) ==
    IF den = 0 THEN <<"N", "a", "N">>
    ELSE LET micro == (2 * num * Million + den) \div (2 * den)
             fraction == SubSeq(ToText(Million + (micro % Million)), 2, 7)
         IN TrimEnd(TrimEnd(ToText(micro \div Million) \o <<".">> \o fraction, "0"), ".")

\* main.rs:815
CigarText(cigar) == MapSeq(cigar, LAMBDA op : <<op[1], op[2]>>)

\* main.rs:781-829
output_results_paf(lens, res, name, label) ==
    MapSeq(res, LAMBDA r :
        LET p == Printed(r.q)
            s == CigarFold(r.cigar, 1, <<0, 0, 0, 0, 0, 0, 0>>)
            edit_distance == s[2] + s[4] + s[6]
        IN <<get_name(r.q.metadata), lens[r.q.metadata], p[1], p[2], p[3],
             name, lens[get_id(name)], r.t.first, r.t.last,
             s[1], s[7], 255,
             FormatIdentity(s[1], s[1] + s[2] + s[3] + s[5]),
             FormatIdentity(s[1], s[1] + edit_distance),
             CigarText(r.cigar)>>
           \o (IF label = None THEN <<>> ELSE <<label[1]>>))

InitQuery ==
    /\ IndexChoice
    /\ PartitionIdle
    /\ IndexIdle
    /\ StepsIdle
    /\ \/ arg_target_range \in {Some(t) : t \in TargetRangeChoices} /\ arg_target_bed = None
       \/ arg_target_range = None /\ arg_target_bed \in {Some(f) : f \in TargetBedChoices}
       \/ arg_target_range = None /\ arg_target_bed = None
    /\ transitive \in BOOLEAN
    /\ output_paf \in BOOLEAN
    /\ check_intervals \in BOOLEAN
    /\ targets = <<>>
    /\ tidx = 0
    /\ target_name = <<>>
    /\ target_range = <<0, 0>>
    /\ qpc = "main"
    /\ results = <<>>
    /\ reported = <<>>
    /\ stdout = <<>>
    /\ error = "none"

queryFrame == <<seq_len, records, partitionVars, indexVars, stepVars>>
queryArgs == <<arg_target_range, arg_target_bed, transitive, output_paf, check_intervals>>

\* The for loop of main.rs:131 moves to target i of ts, or main returns Ok.
NextTarget(ts, i) ==
    /\ targets' = ts
    /\ IF i <= Len(ts)
       THEN /\ tidx' = i
            /\ target_name' = ts[i].name
            /\ target_range' = ts[i].range
            /\ qpc' = "perform_query"
       ELSE /\ qpc' = "done"
            /\ UNCHANGED <<tidx, target_name, target_range>>

\* main.rs:110-111
ParseTargetRange ==
    /\ qpc = "main"
    /\ arg_target_range # None
    /\ \E parsed \in {parse_target_range(arg_target_range[1])} :
          IF parsed.ok
          THEN /\ NextTarget(<<parsed.val>>, 1)
               /\ UNCHANGED error
          ELSE /\ qpc' = "err"
               /\ error' = parsed.kind
               /\ UNCHANGED <<targets, tidx, target_name, target_range>>
    /\ UNCHANGED <<queryFrame, queryArgs, results, reported, stdout>>

\* main.rs:129-131
ParseBedFile ==
    /\ qpc = "main"
    /\ arg_target_range = None
    /\ arg_target_bed # None
    /\ \E parsed \in {parse_bed_file(arg_target_bed[1])} :
          IF parsed.ok
          THEN /\ NextTarget(parsed.val, 1)
               /\ UNCHANGED error
          ELSE /\ qpc' = "err"
               /\ error' = parsed.kind
               /\ UNCHANGED <<targets, tidx, target_name, target_range>>
    /\ UNCHANGED <<queryFrame, queryArgs, results, reported, stdout>>

\* main.rs:151-156
NoTargetGiven ==
    /\ qpc = "main"
    /\ arg_target_range = None
    /\ arg_target_bed = None
    /\ qpc' = "err"
    /\ error' = "InvalidInput"
    /\ UNCHANGED <<queryFrame, queryArgs, targets, tidx, target_name, target_range,
                   results, reported, stdout>>

\* main.rs:737-749, called at main.rs:112 and 132
PerformQuery ==
    /\ qpc = "perform_query"
    /\ LET target_start == target_range[1]
           target_end == target_range[2]
           target_id == get_id(target_name)
       IN IF target_id = NotFound
          THEN \* expect("Target name not found in index")
               /\ qpc' = "panic"
               /\ UNCHANGED results
          ELSE IF target_end > seq_len[target_id]
          THEN \* panic!("Target range end ... exceeds the target sequence length")
               /\ qpc' = "panic"
               /\ UNCHANGED results
          ELSE /\ results' = IF transitive
                             THEN query_transitive(records, target_id, target_start, target_end)
                             ELSE query(records, target_id, target_start, target_end)
               /\ qpc' = "queried"
    /\ UNCHANGED <<queryFrame, queryArgs, targets, tidx, target_name, target_range,
                   reported, stdout, error>>

\* main.rs:113-121 and 133-141
CheckIntervals ==
    /\ qpc = "queried"
    /\ check_intervals
    /\ \E invalid_cigars \in check_intervals_of(results) :
          IF invalid_cigars # <<>>
          THEN /\ reported' = reported \o invalid_cigars
               /\ qpc' = "panic"
          ELSE /\ qpc' = "checked"
               /\ UNCHANGED reported
    /\ UNCHANGED <<queryFrame, queryArgs, targets, tidx, target_name, target_range,
                   results, stdout, error>>

\* What main.rs:123-128 (one range) and main.rs:143-149 (a BED file) print.
OutputOf(res) ==
    IF arg_target_range # None
    THEN IF output_paf
         THEN output_results_paf(seq_len, Skip1(res), target_name, None)
         ELSE output_results_bed(res)
    ELSE IF output_paf
         THEN output_results_paf(seq_len, Skip1(res), target_name, targets[tidx].label)
         ELSE output_results_bedpe(Skip1(res), target_name, targets[tidx].label)

\* main.rs:123-128, 143-149: the results are printed; the loop goes on with
\* the next target, and main returns Ok after the last one (main.rs:165).
OutputResults ==
    /\ qpc = IF check_intervals THEN "checked" ELSE "queried"
    /\ stdout' = stdout \o OutputOf(results)
    /\ NextTarget(targets, tidx + 1)
    /\ UNCHANGED <<queryFrame, queryArgs, results, reported, error>>

NextQuery ==
    \/ ParseTargetRange
    \/ ParseBedFile
    \/ NoTargetGiven
    \/ PerformQuery
    \/ CheckIntervals
    \/ OutputResults

SpecQuery == InitQuery /\ [][NextQuery]_vars

\* -------------------------------- the steps of a window, applied on their own
\* The longest lists the step functions are applied to.
MaxGiven == 2
MaxNear == 3

\* Sequence lengths: for lists with masks, and for lists with distant intervals.
SmallLens == [id \in Seqs |-> CASE id = 0 -> 4 [] id = 1 -> 2 [] id = 2 -> 1000]
NearLens ==
    [id \in Seqs |-> CASE id = 0 -> MergeDistance + 5 [] id = 1 -> 2 [] id = 2 -> 1000]

\* Coordinates at distances below, at and above the merge distance.
NearCoords == {0, 2, MergeDistance + 2, MergeDistance + 3, MergeDistance + 5}

\* A query interval <<id, first, last>> as a result of query_transitive: with
\* the CIGAR of its length, and a target interval that tells where in the
\* list it stood.
AsOverlap(iv, i) ==
    [q |-> [first |-> iv[2], last |-> iv[3], metadata |-> iv[1]],
     cigar |-> <<<<Abs(iv[3] - iv[2]), "=">>>>,
     t |-> [first |-> 100 * i, last |-> 100 * i + Abs(iv[3] - iv[2]), metadata |-> 2]]

OverlapLists(ivs, n) ==
    UNION {{Collect([i \in 1..k |-> AsOverlap(l[i], i)], k) : l \in [1..k -> ivs]}
           : k \in 0..n}

SmallIntervals ==
    {iv \in {0, 1} \X (0..4) \X (0..4) :
        iv[2] # iv[3] /\ iv[2] <= SmallLens[iv[1]] /\ iv[3] <= SmallLens[iv[1]]}

NearIntervals ==
    {iv \in ({0} \X NearCoords \X NearCoords) \cup {<<1, 0, 2>>, <<1, 2, 0>>} :
        iv[2] # iv[3]}

Ranges(len) == {r \in (0..len) \X (0..len) : r[1] < r[2]}

\* The lists merge_ranges leaves for a sequence of length len: sorted, with
\* consecutive ranges more than one base apart.
MergedLists(len) ==
    {<<r>> : r \in Ranges(len)}
    \cup {l \in {<<r1, r2>> : r1 \in Ranges(len), r2 \in Ranges(len)} :
            l[2][1] > l[1][2] + 1}

\* The masks: sequence 0 has no entry or a merged list, sequence 1 has no
\* entry or its first base.
MaskChoices ==
    {CollectMap(m, DOMAIN m) :
        m \in UNION {{f \in [ids -> MergedLists(SmallLens[0])] :
                        1 \in ids => f[1] = <<<<0, 1>>>>}
                     : ids \in SUBSET {0, 1}}}

stepFrame == <<records, window_size, sequence_prefix, debug, pc, windows, widx,
               missing_regions, partition_num, files, iter_area, iter_num,
               indexVars, queryVars>>

InitSteps ==
    /\ records = {}
    /\ window_size = 0
    /\ sequence_prefix = <<>>
    /\ debug = FALSE
    /\ pc = "idle"
    /\ windows = <<>>
    /\ widx = 1
    /\ missing_regions = EmptyMap
    /\ partition_num = 0
    /\ files = <<>>
    /\ iter_area = 0
    /\ iter_num = 0
    /\ IndexIdle
    /\ QueryIdle
    /\ \/ /\ seq_len = SmallLens
          /\ given \in OverlapLists(SmallIntervals, MaxGiven)
          /\ masked_regions \in MaskChoices
          /\ min_length = 0
       \/ /\ seq_len = SmallLens
          /\ given \in OverlapLists(SmallIntervals, MaxGiven)
          /\ masked_regions = EmptyMap
          /\ min_length \in 1..(MaxL + 1)
       \/ /\ seq_len = NearLens
          /\ given \in OverlapLists(NearIntervals, MaxNear)
          /\ masked_regions = EmptyMap
          /\ min_length = 0
    /\ applied = "none"
    /\ returned = <<>>

\* main.rs:346-387
ApplyNearMerge ==
    /\ applied = "none"
    /\ returned' = NearMerge(given)
    /\ applied' = "near_merge"
    /\ UNCHANGED <<stepFrame, seq_len, masked_regions, min_length, given>>

\* main.rs:401
ApplySubtract ==
    /\ applied = "none"
    /\ returned' = subtract_masked_regions(given, masked_regions)
    /\ applied' = "subtract"
    /\ UNCHANGED <<stepFrame, seq_len, masked_regions, min_length, given>>

\* main.rs:417
ApplyExtend ==
    /\ applied = "none"
    /\ returned' \in extend_short_intervals(given, seq_len, min_length)
    /\ applied' = "extend"
    /\ UNCHANGED <<stepFrame, seq_len, masked_regions, min_length, given>>

NextSteps == ApplyNearMerge \/ ApplySubtract \/ ApplyExtend

SpecSteps == InitSteps /\ [][NextSteps]_vars

\* ------------------------------------------------------------ properties
\* Position pos of sequence id is inside a line of some partition file.
Emitted(id, pos) ==
    \E f \in 1..Len(files) : \E l \in 1..Len(files[f]) :
        /\ files[f][l][1] = id
        /\ files[f][l][2] <= pos
        /\ pos < files[f][l][3]

Disjoint(a, b) == a[1] # b[1] \/ a[3] <= b[2] \/ b[3] <= a[2]

Returned == pc = "done"
Stopped == pc \in {"done", "err", "panic"}
WindowSetFinished == pc = "loop" /\ widx > Len(windows)

\* C1: when partition_alignments returns Ok, every position of every sequence
\* whose name starts with the prefix lies inside an emitted interval.
C1_EmittedCoverPrefixSequences ==
    Returned => \A id \in SampleIds : \A pos \in 0..(seq_len[id] - 1) : Emitted(id, pos)

\* C2: when partition_alignments returns Ok, missing_regions is empty.
C2_MissingEmptyOnReturn == Returned => DOMAIN missing_regions = {}

\* C3: two intervals of one partition file on the same sequence are disjoint,
\* for every min-length.
C3_DisjointWithinFile ==
    \A f \in 1..Len(files) : \A i, j \in 1..Len(files[f]) :
        i < j => Disjoint(files[f][i], files[f][j])

\* C4: with min-length 0, intervals of different partition files are disjoint
\* on every sequence.
C4_DisjointAcrossFiles ==
    min_length = 0 =>
        \A f, g \in 1..Len(files) :
            f < g => \A i \in 1..Len(files[f]) : \A j \in 1..Len(files[g]) :
                        Disjoint(files[f][i], files[g][j])

\* C5: the list surviving mask subtraction is never empty: the failure
\* "No overlaps found for region" is not reached.
C5_NoEmptySurvivors == pc # "panic"

\* C6: a window set that has been processed has produced at least one
\* partition and has strictly decreased the total missing area.
C6_WindowSetProgress ==
    WindowSetFinished =>
        /\ partition_num > iter_num
        /\ MissingArea(missing_regions) < iter_area


\* The positions the masked ranges hold.
MaskedPositions(masked) ==
    UNION {UNION {{<<id, p>> : p \in masked[id][i][1]..(masked[id][i][2] - 1)}
                  : i \in 1..Len(masked[id])}
           : id \in DOMAIN masked}

AllPositions == UNION {{<<id, p>> : p \in 0..(seq_len[id] - 1)} : id \in Seqs}

\* A window was processed without the "No overlaps found" failure.
WindowStep == pc = "loop" /\ widx <= Len(windows) /\ pc' # "panic"

MaskGrows ==
    /\ MaskedPositions(masked_regions) \subseteq MaskedPositions(masked_regions')
    /\ MaskedPositions(masked_regions) # MaskedPositions(masked_regions')

\* C7: with a window size of at least 1 the main loop stops (returns or
\* fails): every processed window adds a position to masked_regions, which
\* holds positions of the indexed sequences only.
C7_LoopStops ==
    /\ (pc = "start" /\ window_size >= 1) ~> Stopped
    /\ [][WindowStep => MaskGrows]_vars
    /\ [](MaskedPositions(masked_regions) \subseteq AllPositions)

\* C8: without force-reindex an existing snapshot is loaded, with a warning
\* when the PAF is newer, and nothing is rebuilt or written; with
\* force-reindex, or without a snapshot, the index is built from the PAF and
\* the snapshot is written.
C8_IndexSelection ==
    /\ (~force_reindex /\ snapshot_at_start.kind # "absent") =>
          /\ ~generated
          /\ snapshot_writes = 0
          /\ snapshot = snapshot_at_start
          /\ ipc \in {"ok", "err"} => loaded
          /\ ipc = "ok" =>
                /\ impg = [from |-> "snapshot", records |-> snapshot_at_start.records]
                /\ paf_mtime = "newer" => "modified since" \in warned
    /\ (force_reindex \/ snapshot_at_start.kind = "absent") =>
          /\ ~loaded
          /\ ipc \in {"ok", "err"} => generated
          /\ ipc = "ok" =>
                /\ impg = [from |-> "paf", records |-> paf.records]
                /\ snapshot_writes = 1

\* C9: a generate_index that fails leaves no partial snapshot, and no file
\* that a later run finds and loads.
C9_FailedBuildLeavesNoSnapshot ==
    left_by_failure => (snapshot.kind # "partial" /\ ipc # "load_index")

\* The current target is unknown to the index, or ends beyond its sequence.
BadTarget ==
    /\ tidx \in 1..Len(targets)
    /\ \/ get_id(target_name) = NotFound
       \/ target_range[2] > seq_len[get_id(target_name)]

\* C10: a query against an unknown target name, or with an end beyond the
\* target's length, ends as an error returned through main, with no query run.
C10_BadTargetIsAnError ==
    (BadTarget /\ qpc # "perform_query") => (qpc = "err" /\ results = <<>>)

\* The two texts of a range are numbers with start >= end.
InvertedParts(parts) ==
    /\ Len(parts) = 2
    /\ ParseI32(parts[1]).ok
    /\ ParseI32(parts[2]).ok
    /\ ParseI32(parts[1]).val >= ParseI32(parts[2]).val

\* The caller's input holds a range with start >= end.
InvertedInput ==
    \/ /\ arg_target_range # None
       /\ Len(RSplit2(arg_target_range[1], ":")) = 2
       /\ InvertedParts(Split(RSplit2(arg_target_range[1], ":")[1], "-"))
    \/ /\ arg_target_range = None
       /\ arg_target_bed # None
       /\ arg_target_bed[1].exists
       /\ \E i \in 1..Len(arg_target_bed[1].lines) :
             LET parts == Split(arg_target_bed[1].lines[i], Tab)
             IN Len(parts) >= 3 /\ InvertedParts(SubSeq(parts, 2, 3))

\* C11: an input range with start >= end, in --target-range or in a BED line,
\* ends the run with an InvalidInput error before any query has run; every
\* range handed to perform_query has start < end.
C11_InvertedRangesRejected ==
    /\ (InvertedInput /\ qpc # "main") =>
          (qpc = "err" /\ error = "InvalidInput" /\ results = <<>> /\ stdout = <<>>)
    /\ \A i \in 1..Len(targets) : targets[i].range[1] < targets[i].range[2]
    /\ qpc \in {"perform_query", "queried", "checked", "panic", "done"} /\ tidx >= 1 =>
          target_range[1] < target_range[2]

\* C12: violations that check_intervals returned are reported and the run is
\* not aborted.
C12_ViolationsAreNotFatal == reported # <<>> => qpc # "panic"

\* The position of the start field in a printed line; the end follows it.
StartField == IF output_paf THEN 3 ELSE 2
\* The position of the strand field of the query interval in a printed line.
StrandField ==
    IF output_paf THEN 5 ELSE IF arg_target_range # None THEN 6 ELSE 9

\* The results whose lines main prints: all of them as BED, all but the first
\* as BEDPE and PAF.
Shown == IF arg_target_range # None /\ ~output_paf THEN results ELSE Skip1(results)

OutputStep == qpc \in {"queried", "checked"} /\ qpc' \in {"perform_query", "done"}

\* C14: a BED, BEDPE or PAF line is printed for each shown result, with
\* (min(first,last), max(first,last)) as start and end, and with strand '-'
\* exactly when first > last, '+' otherwise.
C14_PrintedIntervalsNormalised ==
    [][OutputStep =>
         LET printed == SubSeq(stdout', Len(stdout) + 1, Len(stdout'))
         IN /\ Len(printed) = Len(Shown)
            /\ \A i \in 1..Len(Shown) :
                  LET q == Shown[i].q
                      line == printed[i]
                  IN /\ line[StartField] = Min(q.first, q.last)
                     /\ line[StartField + 1] = Max(q.first, q.last)
                     /\ line[StartField] <= line[StartField + 1]
                     /\ line[StrandField] = (IF q.first > q.last THEN "-" ELSE "+")]_vars

\* C13: every line of a partition file has start < end, also when it was
\* written from an interval with first > last.
C13_LinesAreNormalised ==
    \A f \in 1..Len(files) : \A l \in 1..Len(files[f]) : files[f][l][2] < files[f][l][3]

\* The positions of sequence id that the ranges of m hold; none when m has no
\* entry for id.
PositionsOf(m, id) ==
    IF id \in DOMAIN m
    THEN UNION {m[id][i][1]..(m[id][i][2] - 1) : i \in 1..Len(m[id])}
    ELSE {}

\* C15: for every sequence that missing_regions holds, the missing positions
\* are exactly the positions of the sequence that masked_regions does not
\* hold.
C15_MissingIsComplementOfMasked ==
    \A id \in DOMAIN missing_regions :
        PositionsOf(missing_regions, id)
            = (0..(seq_len[id] - 1)) \ PositionsOf(masked_regions, id)

\* The positions the query intervals of overlaps hold.
OverlapPositions(overlaps) ==
    UNION {{<<overlaps[i].q.metadata, p>> :
               p \in Min(overlaps[i].q.first, overlaps[i].q.last)
                      ..(Max(overlaps[i].q.first, overlaps[i].q.last) - 1)}
           : i \in 1..Len(overlaps)}

\* Consecutive ranges (a,b), (c,d) of every list satisfy c > b + 1.
SortedAndMerged(masked) ==
    \A id \in DOMAIN masked : \A i \in 1..(Len(masked[id]) - 1) :
        masked[id][i + 1][1] > masked[id][i][2] + 1

\* The mask after a window step holds the mask before it and the intervals
\* that survived the subtraction.
MaskCoversStep ==
    /\ MaskedPositions(masked_regions) \subseteq MaskedPositions(masked_regions')
    /\ OverlapPositions(WindowOverlaps(windows[widx], records, debug,
                                       masked_regions, missing_regions).overlaps)
          \subseteq MaskedPositions(masked_regions')

\* C16: every list of masked_regions is sorted by start and merged, ranges
\* that overlap or lie within a gap of 1 being fused, and a window step keeps
\* every position of the previous mask and adds every position of the newly
\* surviving intervals.
C16_MaskedSortedMergedCovering ==
    /\ []SortedAndMerged(masked_regions)
    /\ [][WindowStep => MaskCoversStep]_vars

\* The query interval of a lies inside that of b, on the same sequence.
Within(a, b) ==
    /\ a.q.metadata = b.q.metadata
    /\ QMin(b) <= QMin(a)
    /\ QMax(a) <= QMax(b)

\* The positions in list ins of the intervals that went into output out.
Contributors(ins, out) == {k \in 1..Len(ins) : Within(ins[k], out)}

\* C17: after the near-merge, two intervals left on one sequence are more
\* than 10000 apart, every input interval lies in exactly one output interval,
\* every output has at least one input, and an output merged from two inputs
\* or more is (min of their minima, max of their maxima).
C17_NearMergeIntervals ==
    applied = "near_merge" =>
        /\ \A i, j \in 1..Len(returned) :
              (i # j /\ returned[i].q.metadata = returned[j].q.metadata) =>
                  \/ QMin(returned[j]) > QMax(returned[i]) + MergeDistance
                  \/ QMin(returned[i]) > QMax(returned[j]) + MergeDistance
        /\ \A k \in 1..Len(given) :
              Cardinality({j \in 1..Len(returned) : Within(given[k], returned[j])}) = 1
        /\ \A j \in 1..Len(returned) :
              LET group == Contributors(given, returned[j])
              IN /\ group # {}
                 /\ Cardinality(group) >= 2 =>
                       /\ returned[j].q.first = QMin(returned[j])
                       /\ returned[j].q.last = QMax(returned[j])
                 /\ \E k \in group : QMin(given[k]) = QMin(returned[j])
                 /\ \E k \in group : QMax(given[k]) = QMax(returned[j])

\* C18: after the near-merge, every output carries the CIGAR and the target
\* interval of the first input, in sort order, that went into it.
C18_NearMergeKeepsFirstContributor ==
    applied = "near_merge" =>
        \A j \in 1..Len(returned) :
            LET sorted == SortByStart(given)
                group == Contributors(sorted, returned[j])
                first == CHOOSE k \in group : \A m \in group : k <= m
            IN group # {} =>
                  /\ returned[j].cigar = sorted[first].cigar
                  /\ returned[j].t = sorted[first].t

\* The positions of the query interval of o.
SpanOf(o) == QMin(o)..(QMax(o) - 1)

\* What C19 says subtract_masked_regions returns for one overlap.
SubtractedAsClaimed(o, masked) ==
    LET out == SubtractOne(o, masked)
        id == o.q.metadata
        unmasked == SpanOf(o) \ PositionsOf(masked, id)
    IN IF id \notin DOMAIN masked
       THEN out = <<o>>
       ELSE /\ \A i \in 1..Len(out) :
                 /\ out[i].q.metadata = id
                 /\ out[i].q.first < out[i].q.last
                 /\ SpanOf(out[i]) \subseteq unmasked
                 \* maximal: the positions next to it are masked or outside
                 /\ (out[i].q.first - 1) \notin unmasked
                 /\ out[i].q.last \notin unmasked
            /\ UNION {SpanOf(out[i]) : i \in 1..Len(out)} = unmasked
            /\ \A i, j \in 1..Len(out) : i < j => out[i].q.last < out[j].q.first

RECURSIVE ConcatSubtracted(_, _, _)
ConcatSubtracted(ov, i, masked) ==
    IF i > Len(ov) THEN <<>>
    ELSE SubtractOne(ov[i], masked) \o Call3(ConcatSubtracted, ov, i + 1, masked)

\* C19: for each overlap, subtract_masked_regions returns the maximal
\* sub-intervals of its span that the mask of its sequence does not cover:
\* non-empty, inside the span, disjoint from the mask, covering every unmasked
\* position; an overlap of a sequence without a mask entry is returned as it
\* is.
C19_SubtractReturnsUnmaskedParts ==
    applied = "subtract" =>
        /\ \A k \in 1..Len(given) : SubtractedAsClaimed(given[k], masked_regions)
        /\ returned = ConcatSubtracted(given, 1, masked_regions)

\* What C20 says extend_short_intervals makes of one overlap: a query
\* interval shorter than L grown by L at both ends within [0, length], its
\* orientation kept, its target grown by L at both ends; every other overlap
\* as it was.
ExtendedAsClaimed(o, lens, L) ==
    IF Abs(o.q.last - o.q.first) < L
    THEN LET lo == Max(0, QMin(o) - L)
             hi == Min(lens[o.q.metadata], QMax(o) + L)
         IN [q |-> [first |-> IF o.q.first <= o.q.last THEN lo ELSE hi,
                    last |-> IF o.q.first <= o.q.last THEN hi ELSE lo,
                    metadata |-> o.q.metadata],
             cigar |-> o.cigar,
             t |-> [first |-> o.t.first - L, last |-> o.t.last + L,
                    metadata |-> o.t.metadata]]
    ELSE o

\* C20: extend_short_intervals returns the given overlaps, in some order, each
\* changed as ExtendedAsClaimed says: only intervals shorter than L change.
C20_ExtendChangesOnlyShort ==
    applied = "extend" =>
        /\ Len(returned) = Len(given)
        /\ \E p \in Permutations(1..Len(given)) :
              \A k \in 1..Len(given) :
                  returned[p[k]] = ExtendedAsClaimed(given[k], seq_len, min_length)

\* ws tiles [a,b) of sequence id with width w: contiguous from a to b, every
\* window of width w but a last one that may be shorter, none empty.
TilesOf(ws, id, a, b, w) ==
    IF a = b THEN ws = <<>>
    ELSE /\ ws # <<>>
         /\ ws[1][2] = a
         /\ ws[Len(ws)][3] = b
         /\ \A i \in 1..Len(ws) :
               /\ ws[i][1] = id
               /\ ws[i][2] < ws[i][3]
               /\ ws[i][3] - ws[i][2] <= w
               /\ i < Len(ws) => (ws[i][3] - ws[i][2] = w /\ ws[i + 1][2] = ws[i][3])

\* The window set is exhausted, missing_regions is not empty, and the next
\* window set is made.
Regenerates ==
    /\ pc = "loop"
    /\ widx > Len(windows)
    /\ DOMAIN missing_regions # {}
    /\ pc' \in {"loop", "done"}

\* C21: the window set made when a window set is exhausted and
\* missing_regions is not empty tiles exactly one missing range, one of
\* maximal length among all ranges of all sequences, with windows of width W,
\* the last one possibly shorter.
C21_NextWindowsTileLongest ==
    [][Regenerates =>
         \E x \in MissingRanges :
            /\ \A y \in MissingRanges : RangeLength(y) <= RangeLength(x)
            /\ TilesOf(windows', x[1], missing_regions[x[1]][x[2]][1],
                       missing_regions[x[1]][x[2]][2], window_size)]_vars

\* The windows of ws that lie on sequence id, in their order.
RECURSIVE WindowsOn(_, _)
WindowsOn(ws, id) ==
    IF ws = <<>> THEN <<>>
    ELSE (IF Head(ws)[1] = id THEN <<Head(ws)>> ELSE <<>>) \o Call2(WindowsOn, Tail(ws), id)

\* partition_alignments has passed its initialization.
Initialized == pc = "start" /\ pc' \in {"loop", "done"}

\* C22: after the initialization the windows tile [0, len) of exactly the
\* sequences whose name starts with the prefix, missing_regions holds (0, len)
\* of every indexed sequence and masked_regions is empty; with no sequence of
\* that prefix the partitioner returns the NotFound error and no partition
\* file is written.
C22_Initialization ==
    /\ [][Initialized =>
            /\ \A id \in Seqs :
                  IF starts_with(get_name(id), sequence_prefix)
                  THEN TilesOf(WindowsOn(windows', id), id, 0, seq_len[id], window_size)
                  ELSE WindowsOn(windows', id) = <<>>
            /\ DOMAIN missing_regions' = Seqs
            /\ \A id \in Seqs : missing_regions'[id] = <<<<0, seq_len[id]>>>>
            /\ DOMAIN masked_regions' = {}]_vars
    /\ [][(pc = "start" /\ \A id \in Seqs : ~starts_with(get_name(id), sequence_prefix))
             => (pc' = "err" /\ files' = <<>>)]_vars
    /\ []((\A id \in Seqs : ~starts_with(get_name(id), sequence_prefix)) => files = <<>>)

\* A window was processed and its partition file fully written.
WindowWritten == pc = "loop" /\ widx <= Len(windows) /\ pc' = "loop"

\* C23: partition_num never decreases; it grows by exactly one, together
\* with one new file, when a window has been processed and written, and not
\* otherwise; file k (from 0) is the file of the k-th processed window, and at
\* return partition_num is the number of files written.
C23_PartitionNumCountsFiles ==
    /\ [][/\ partition_num' >= partition_num
          /\ IF WindowWritten
             THEN /\ partition_num' = partition_num + 1
                  /\ Len(files') = Len(files) + 1
                  /\ SubSeq(files', 1, Len(files)) = files
                  /\ Len(files) = partition_num
             ELSE partition_num' = partition_num]_vars
    /\ [](Returned => partition_num = Len(files))

\* The line printed for result r shows r: its sequence, and its target
\* interval where the format prints one.
LineShows(line, r) ==
    /\ line[1] = get_name(r.q.metadata)
    /\ line[StartField] = Min(r.q.first, r.q.last)
    /\ line[StartField + 1] = Max(r.q.first, r.q.last)
    /\ IF output_paf THEN line[8] = r.t.first /\ line[9] = r.t.last
       ELSE IF arg_target_range = None THEN line[5] = r.t.first /\ line[6] = r.t.last
       ELSE TRUE

\* C24: a single-range query with BED output prints a line for every result,
\* the self-entry included; PAF output and every query of a BED file print a
\* line for every result but the first, in result order.
C24_SelfEntryPerOutputMode ==
    [][OutputStep =>
         LET printed == SubSeq(stdout', Len(stdout) + 1, Len(stdout'))
             skipped == IF arg_target_range # None /\ ~output_paf THEN 0 ELSE 1
         IN /\ results # <<>>
            /\ Len(printed) = Len(results) - skipped
            /\ \A i \in 1..Len(printed) : LineShows(printed[i], results[i + skipped])]_vars

\* The intervals of window w that survive the subtraction of the mask, before
\* any extension.
Survivors(w) ==
    Call2(subtract_masked_regions,
          NearMerge(IF debug THEN DebugSort(query_transitive(records, w[1], w[2], w[3]))
                    ELSE query_transitive(records, w[1], w[2], w[3])),
          masked_regions)

C26_TilingTerminates == pc # "hang"

\* ------------------------------------------------------------- witnesses
\* C4: with min-length 0, an interval of an earlier file lies between two
\* pieces of one later file.
C4_Witness ==
    /\ min_length = 0
    /\ \E f, g \in 1..Len(files) :
         /\ f < g
         /\ \E i \in 1..Len(files[f]) : \E j, k \in 1..Len(files[g]) :
              /\ files[g][j][1] = files[f][i][1]
              /\ files[g][k][1] = files[f][i][1]
              /\ files[g][j][3] <= files[f][i][2]
              /\ files[f][i][3] <= files[g][k][2]

\* C6: a window set tiled from a missing region, of two windows or more, has
\* been processed.
C6_Witness ==
    /\ WindowSetFinished
    /\ iter_num > 0
    /\ Len(windows) >= 2

\* C7: the loop has returned after a regenerated window set.
C7_Witness ==
    /\ Returned
    /\ window_size >= 1
    /\ iter_num > 0
    /\ partition_num > iter_num

\* C8: a snapshot older than the PAF, and of other records, was loaded.
C8_Witness ==
    /\ ipc = "ok"
    /\ ~force_reindex
    /\ paf_mtime = "newer"
    /\ paf.state = "ok"
    /\ impg.from = "snapshot"
    /\ impg.records # paf.records

\* C11: a BED file whose second line has start >= end was rejected.
C11_Witness ==
    /\ qpc = "err"
    /\ error = "InvalidInput"
    /\ arg_target_bed # None
    /\ Len(arg_target_bed[1].lines) = 2
    /\ Len(Split(arg_target_bed[1].lines[1], Tab)) >= 3
    /\ ~InvertedParts(SubSeq(Split(arg_target_bed[1].lines[1], Tab), 2, 3))
    /\ InvertedInput

\* C14: PAF lines were printed for a reverse and for a forward query interval.
C14_Witness ==
    /\ qpc = "done"
    /\ output_paf
    /\ \E i, j \in 1..Len(stdout) :
          /\ stdout[i][StrandField] = "-"
          /\ stdout[j][StrandField] = "+"
          /\ stdout[i][StartField] < stdout[i][StartField + 1]

\* C13: the index holds the reverse alignment of ab onto a and nothing else,
\* and only ab is sampled: the line of a in the first file was written from
\* the reverse projection of the window, which no mask had yet cut.
C13_Witness ==
    /\ records = {4}
    /\ sequence_prefix = <<"a", "b">>
    /\ pc = "loop"
    /\ Len(files) >= 1
    /\ \E l \in 1..Len(files[1]) : files[1][l][1] = 0

\* C16: two intervals written one base apart lie in one fused masked range.
C16_Witness ==
    /\ min_length = 0
    /\ pc = "loop"
    /\ \E f, g \in 1..Len(files) : \E i \in 1..Len(files[f]) : \E j \in 1..Len(files[g]) :
          /\ files[f][i][1] = files[g][j][1]
          /\ files[f][i][3] + 1 = files[g][j][2]
          /\ \E k \in 1..Len(masked_regions[files[f][i][1]]) :
                /\ masked_regions[files[f][i][1]][k][1] <= files[f][i][2]
                /\ masked_regions[files[f][i][1]][k][2] >= files[g][j][3]

\* C17: three intervals of one sequence, a forward and a reverse one merged,
\* the third 10001 after them and left alone.
C17_Witness ==
    /\ applied = "near_merge"
    /\ Len(given) = 3
    /\ Len(returned) = 2
    /\ returned[1].q.metadata = returned[2].q.metadata
    /\ Cardinality(Contributors(given, returned[1])) = 2
    /\ \E a, b \in Contributors(given, returned[1]) :
          given[a].q.first < given[a].q.last /\ given[b].q.first > given[b].q.last
    /\ QMin(returned[2]) = QMax(returned[1]) + MergeDistance + 1

\* C19: a reverse interval was cut into two pieces by a mask inside it, next
\* to an interval of a sequence without a mask entry.
C19_Witness ==
    /\ applied = "subtract"
    /\ Len(given) = 2
    /\ given[1].q.first > given[1].q.last
    /\ given[1].q.metadata \in DOMAIN masked_regions
    /\ given[2].q.metadata \notin DOMAIN masked_regions
    /\ Len(returned) = 3
    /\ returned[3] = given[2]

\* C20: a short reverse interval was grown and cut at the end of its
\* sequence and at 0, next to an interval of length L that was left alone.
C20_Witness ==
    /\ applied = "extend"
    /\ Len(given) = 2
    /\ \E k, m \in 1..2 :
          /\ given[k].q.first > given[k].q.last
          /\ Abs(given[k].q.first - given[k].q.last) < min_length
          /\ given[k].q.first + min_length > seq_len[given[k].q.metadata]
          /\ given[k].q.last - min_length < 0
          /\ Abs(given[m].q.first - given[m].q.last) = min_length
          /\ \E i, j \in 1..2 :
                /\ i # j
                /\ returned[i].q.first = seq_len[given[k].q.metadata]
                /\ returned[i].q.last = 0
                /\ returned[i].t.first = given[k].t.first - min_length
                /\ returned[j] = given[m]

\* C21: a window set was tiled from a missing range that is not a multiple
\* of W, while a shorter missing range was left for later.
C21_Witness ==
    /\ pc = "loop"
    /\ iter_num > 0
    /\ widx = 1
    /\ Len(windows) >= 2
    /\ windows[Len(windows)][3] - windows[Len(windows)][2] < window_size
    /\ \E y \in MissingRanges : 0 < RangeLength(y) /\ RangeLength(y) < max_length

\* C22: the initialization tiled one sequence of the two longer than a
\* window, with a shorter last tile, and left the other without windows.
C22_Witness ==
    /\ pc = "loop"
    /\ partition_num = 0
    /\ widx = 1
    /\ files = <<>>
    /\ \E id \in Seqs : seq_len[id] > 0 /\ WindowsOn(windows, id) = <<>>
    /\ Len(windows) >= 2
    /\ windows[Len(windows)][3] - windows[Len(windows)][2] < window_size

\* C23: the partitioner returned after three files, the last one from a
\* regenerated window set.
C23_Witness ==
    /\ Returned
    /\ partition_num = 3
    /\ Len(files) = 3
    /\ iter_num > 0

\* C24: a query of a BED file printed two BEDPE lines for three results.
C24_Witness ==
    /\ qpc = "done"
    /\ arg_target_bed # None
    /\ ~output_paf
    /\ Len(targets) = 1
    /\ Len(results) = 3
    /\ Len(stdout) = 2
    /\ stdout[1] # stdout[2]

====
